---- MODULE Spec2Model ----
(***************************************************************************)
(* Lifecycle of the multiplexed gRPC + HTTP server of svc-common-go        *)
(* (pkg/server: Server.Run, Server.Shutdown; pkg/grpc: GRPCService;        *)
(* pkg/http: HTTPService), together with the behaviour of the libraries    *)
(* the code calls: errgroup (first error wins, Wait cancels), cmux v0.1.5  *)
(* (Serve, the sniffing goroutines, the virtual listeners that embed the   *)
(* root listener), grpc.Server (Serve, GracefulStop) and net/http          *)
(* (Server.Serve).                                                         *)
(***************************************************************************)
EXTENDS Integers, Sequences, FiniteSets, TLC

\* ---------------------------------------------------------------- bounds
MaxConns == 1
MaxShutdowns == 1
\* length of a client's stream, and of the slice given to a Read
MaxStream == 3
MaxRead == 2
\* number of rules registered on a multiplexer
MaxRules == 2
\* number of words and spaces in an Authorization header
MaxHeader == 3
\* number of required permissions, and of permissions in a token
MaxPerms == 2
\* number of comma-separated entries in SERVICE_DEPS
MaxDeps == 2
\* number of handlers in Service.HTTPHandlers
MaxRoutes == 2

\* connections: MaxConns of them, and one more for the serving-only runs
Conns == 1..(MaxConns + 1)
\* Shutdown calls: MaxShutdowns of them, and one repeated call
Calls == 1..(MaxShutdowns + 1)

\* ------------------------------------------------------------ vocabulary
Protocols == {"http", "grpc", ""}
Units == {"grpc", "http", "cmux"}
Kinds == {"grpc", "http1", "junk"}

NoErr == "nil"
ErrClosed == "use of closed network connection"
ErrMuxServerClosed == "mux: server closed"
ErrMuxListenerClosed == "mux: listener closed"
ErrServerStopped == "grpc: the server has been stopped"
\* cmux.ErrNotMatched: no rule accepted the connection
ErrNotMatched == "not matched"
ErrCtx == "context done"
\* "failed to initialize HTTP service: service cannot be nil"
ErrHTTPInit == "failed to initialize HTTP service"

VARIABLES
  protocol,     \* value of SERVICE_PROTOCOL
  callerDone,   \* the context given to Run is cancelled / past its deadline
  sCancel,      \* Server.cancel: "nil", "set", or "stale" (an earlier Run's)
  cancelCalled, \* the cancel function stored in Server.cancel was invoked
  runPc,        \* position of Run
  runRet,       \* value returned by Run
  reported,     \* Run logged "server run terminated" at error level
  gCancelled,   \* the errgroup cancelled its context
  gErr,         \* the errgroup's first-error slot
  firstFailed,  \* the unit whose function was first to return a non-nil error
  unit,         \* state of each unit of the errgroup
  unitRet,      \* value each unit returned
  watcherPc,    \* the goroutine that closes the listener on ctx.Done()
  closedBy,     \* who invoked Close on the root listener
  sls,          \* cmux matcher lists, in registration order
  muxDone,      \* cmux closed its done channels
  muxClosed,    \* cmux closed the connection channels of its listeners
  conn,         \* state of each client connection
  bytes,        \* the leading bytes each client has sent
  grpcQ,        \* connections queued on the gRPC virtual listener
  httpQ,        \* connections queued on the HTTP virtual listener
  grpcQuit,     \* grpc.Server.quit fired
  grpcDone,     \* grpc.Server.done fired (a stop completed, conns == nil)
  grpcLis,      \* grpc.Server.lis: "empty", "registered", "nil"
  sdPc,         \* position of each Shutdown call
  sdRet,        \* value each Shutdown call returned
  sdCtxDone,    \* the context given to each Shutdown call is done
  gsPc,         \* position of the goroutine each Shutdown call starts
  sdFirst,      \* which became ready first for a call that is in its
                \* select: "stop", "ctx", "none"
  muc,          \* a cmux.MuxConn: the client's stream and its bufferedReader
  fbReq,        \* a request passing through FirebaseAuthMiddleware
  svcNew,       \* a call of service.New: environment, dial outcomes, result
  httpNew,      \* a call of http.New: the service's handlers, the result
  authReq       \* a request passing through the permission check of Auth

vars == <<protocol, callerDone, sCancel, cancelCalled, runPc,
          runRet, reported, gCancelled, gErr, firstFailed, unit, unitRet, watcherPc,
          closedBy, sls, muxDone, muxClosed, conn, bytes, grpcQ, httpQ,
          grpcQuit, grpcDone, grpcLis, sdPc, sdRet, sdCtxDone, gsPc, sdFirst,
          muc, fbReq, svcNew, httpNew, authReq>>

\* the calls of the library functions, which the server's lifecycle leaves
\* alone
callVars == <<fbReq, svcNew, httpNew, authReq>>

runVars == <<runPc, runRet, reported>>
ctxVars == <<callerDone, sCancel, cancelCalled>>
groupVars == <<gCancelled, gErr, firstFailed>>
muxVars == <<sls, muxDone, muxClosed>>
connVars == <<conn, bytes, grpcQ, httpQ>>
grpcVars == <<grpcQuit, grpcDone, grpcLis>>
sdVars == <<sdPc, sdRet, sdCtxDone, gsPc, sdFirst>>

\* ------------------------------------------------------------- contexts
\* ctx.Done() of the errgroup context: it is a child of the context made by
\* context.WithCancel(ctx), itself a child of the caller's context.
GroupCtxDone == callerDone \/ cancelCalled \/ gCancelled

\* -------------------------------------------------------- root listener
RootClosed == closedBy # {}

\* net.Listener.Close: every invocation is recorded under its caller, a pair
\* <<place, call>> (call is 0 except for the Close of a Shutdown call).
CloseRoot(who) == closedBy' = closedBy \cup {who}

\* number of Close invocations on the root listener
CloseCount == Cardinality(closedBy)

\* ------------------------------------------------------------- errgroup
\* a group that keeps the last non-nil error instead of the first
GroupErrLast(old, err) == IF err # NoErr THEN err ELSE old

\* errgroup.Group.Go wrapper: errOnce keeps the first non-nil error.
GroupErr(old, err) == IF old = NoErr THEN err ELSE old

\* a unit's function returned err: the errgroup records it, cancels its
\* context on the first non-nil error and marks the unit finished.
GroupReturn(u, err) ==
  /\ unit' = [unit EXCEPT ![u] = "done"]
  /\ unitRet' = [unitRet EXCEPT ![u] = err]
  /\ firstFailed' = IF firstFailed = "none" /\ err # NoErr THEN u
                    ELSE firstFailed
  /\ gErr' = GroupErr(gErr, err)
  /\ gCancelled' = (gCancelled \/ err # NoErr)

\* cmux newMuxConn: a connection just accepted, whose client will send
\* stream; its bufferedReader is empty; left is the number of matchers that
\* may still be run on it
NewMuxConn(stream, left) ==
  [stream |-> stream, srcPos |-> 0, buffer |-> <<>>, bufferRead |-> 0,
   bufferSize |-> 0, sniffing |-> FALSE, phase |-> "accepted",
   left |-> left, seen |-> <<>>, sniffed |-> 0, out |-> <<>>]

\* the server before Run is called
ServerInit ==
  /\ protocol \in Protocols
  /\ callerDone = FALSE
  /\ sCancel = "nil"
  /\ cancelCalled = FALSE
  /\ runPc = "idle"
  /\ runRet = NoErr
  /\ reported = FALSE
  /\ gCancelled = FALSE
  /\ gErr = NoErr
  /\ firstFailed = "none"
  /\ unit = [u \in Units |-> "none"]
  /\ unitRet = [u \in Units |-> NoErr]
  /\ watcherPc = "none"
  /\ closedBy = {}
  /\ sls = <<>>
  /\ muxDone = FALSE
  /\ muxClosed = FALSE
  /\ conn = [c \in Conns |-> "new"]
  /\ bytes = [c \in Conns |-> "none"]
  /\ grpcQ = <<>>
  /\ httpQ = <<>>
  /\ grpcQuit = FALSE
  /\ grpcDone = FALSE
  /\ grpcLis = "empty"
  /\ sdPc = [i \in Calls |-> "idle"]
  /\ sdRet = [i \in Calls |-> NoErr]
  /\ sdCtxDone = [i \in Calls |-> FALSE]
  /\ gsPc = [i \in Calls |-> "none"]
  /\ sdFirst = [i \in Calls |-> "none"]

\* no library call is in progress
NoCalls ==
  /\ fbReq = <<>>
  /\ svcNew = <<>>
  /\ httpNew = <<>>
  /\ authReq = <<>>

Init == ServerInit /\ muc = NewMuxConn(<<>>, 0) /\ NoCalls

\* ------------------------------------------------------------ Server.Run
\* a goroutine calls s.Run(ctx)
CallRun ==
  /\ runPc = "idle"
  /\ runPc' = "called"
  /\ UNCHANGED <<callVars, muc, protocol,
                 ctxVars, runRet, reported, groupVars, unit, unitRet,
                 watcherPc, closedBy, muxVars, connVars, grpcVars, sdVars>>

\* cmux.HTTP2MatchHeaderFieldSendSettings("content-type", "application/grpc")
GRPCMatcher(b) == b = "grpc"

\* an HTTP rule that accepts whatever the client sends, as cmux.Any() does
HTTP1Any(b) == TRUE

\* cmux.HTTP1Fast()
HTTP1Fast(b) == b = "http1"

Matches(tag, b) == IF tag = "grpc" THEN GRPCMatcher(b) ELSE HTTP1Fast(b)

\* m.Match / m.MatchWithWriters: a rule is the listener's tag and the
\* leading bytes its matchers accept
Rule(tag) == [tag |-> tag, accepts |-> {k \in Kinds : Matches(tag, k)}]

\* the rules Run registers (lines 63-67 and 76-77), in order
Registered(p) ==
  (IF p # "http" THEN <<Rule("grpc")>> ELSE <<>>) \o
  (IF p # "grpc" THEN <<Rule("http")>> ELSE <<>>)

\* a Run that starts both servers whatever SERVICE_PROTOCOL says
SpawnedBoth(p) ==
  [u \in Units |-> IF u = "grpc" THEN "spawned" ELSE "serving"]

\* the units Run hands to the errgroup (lines 68, 82 and 91)
Spawned(p) ==
  [u \in Units |->
     IF u = "grpc" THEN (IF p # "http" THEN "spawned" ELSE "none")
     ELSE IF u = "http" THEN (IF p # "grpc" THEN "serving" ELSE "none")
     ELSE "serving"]

\* lines 50-96: s.cancel is stored, cmux.New, errgroup.WithContext, the
\* watcher goroutine is started, the matchers are registered and the units
\* spawned according to SERVICE_PROTOCOL (http.New succeeds: s.Service is
\* never nil for a Server made by New); none of these statements blocks
RunSpawn ==
  /\ runPc = "called"
  /\ sCancel' = "set"
  /\ watcherPc' = "waiting"
  /\ sls' = Registered(protocol)
  /\ unit' = Spawned(protocol)
  /\ runPc' = "wait"
  /\ UNCHANGED <<callVars, muc, protocol,
                 callerDone, cancelCalled, runRet, reported, groupVars,
                 unitRet, closedBy, muxDone, muxClosed, connVars, grpcVars,
                 sdVars>>

\* a Run that suppresses the error once its context is done
RunResultSuppressed(err, ctxDone) == IF ctxDone THEN NoErr ELSE err

\* lines 98-102: the value Run returns, given g.Wait()'s result and whether
\* ctx.Err() is non-nil at line 99 (which only decides the error log)
RunResult(err, ctxDone) == err

\* lines 99-101: the error-level log "server run terminated" is written when
\* err is non-nil and ctx.Err() is nil; ctx is the errgroup's context since
\* line 52
RunReports(err, ctxDone) == err # NoErr /\ ~ctxDone

\* lines 98-102: g.Wait() returns once every unit has finished; Wait cancels
\* the errgroup context and yields the first error; Run returns it
RunWait ==
  /\ runPc = "wait"
  /\ \A u \in Units : unit[u] \in {"none", "done"}
  /\ gCancelled' = TRUE
  /\ runRet' = RunResult(gErr, callerDone \/ cancelCalled \/ gCancelled')
  /\ reported' = RunReports(gErr, callerDone \/ cancelCalled \/ gCancelled')
  /\ runPc' = "returned"
  /\ UNCHANGED <<callVars, muc, protocol,
                 ctxVars, gErr, firstFailed, unit, unitRet, watcherPc,
                 closedBy, muxVars, connVars, grpcVars, sdVars>>

\* lines 57-61: the watcher wakes on ctx.Done(), logs through
\* s.Service.Logger (which needs a Service: without one the log statement
\* dereferences nil and Close is never reached) and closes the listener
WatcherClose ==
  /\ watcherPc = "waiting"
  /\ GroupCtxDone
  /\ runRet # ErrHTTPInit
  /\ CloseRoot(<<"watcher", 0>>)
  /\ watcherPc' = "done"
  /\ UNCHANGED <<callVars, muc, protocol,
                 ctxVars, runVars, groupVars, unit, unitRet,
                 muxVars, connVars, grpcVars, sdVars>>

\* the caller's context is cancelled or its deadline expires
CallerCancel ==
  /\ ~callerDone
  /\ runPc # "returned"
  /\ callerDone' = TRUE
  /\ UNCHANGED <<callVars, muc, protocol,
                 sCancel, cancelCalled, runVars, groupVars, unit,
                 unitRet, watcherPc, closedBy, muxVars, connVars, grpcVars,
                 sdVars>>

\* --------------------------------------------------------------- clients
\* a connected client sends its leading bytes
ClientSend(c, k) ==
  /\ conn[c] = "sniffing"
  /\ bytes[c] = "none"
  /\ bytes' = [bytes EXCEPT ![c] = k]
  /\ UNCHANGED <<callVars, muc, protocol,
                 ctxVars, runVars, groupVars, unit, unitRet,
                 watcherPc, closedBy, muxVars, conn, grpcQ, httpQ, grpcVars,
                 sdVars>>

\* the client of a connection that is being served ends its work
ClientFinish(c) ==
  /\ conn[c] \in {"grpc", "http"}
  /\ conn' = [conn EXCEPT ![c] = "finished"]
  /\ UNCHANGED <<callVars, muc, protocol,
                 ctxVars, runVars, groupVars, unit, unitRet,
                 watcherPc, closedBy, muxVars, bytes, grpcQ, httpQ, grpcVars,
                 sdVars>>

\* ------------------------------------------------------------------ cmux
\* a serve that lets the rule registered last win
RECURSIVE MatchLast(_, _, _)
MatchLast(list, i, b) ==
  IF i > Len(list) THEN "none"
  ELSE IF MatchLast(list, i + 1, b) # "none" THEN MatchLast(list, i + 1, b)
  ELSE IF b \in list[i].accepts THEN list[i].tag
  ELSE "none"

\* cMux.serve: the rules are tried in registration order and the first one
\* whose matcher is satisfied wins; "none" when no rule matches
RECURSIVE MatchFrom(_, _, _)
MatchFrom(list, i, b) ==
  IF i > Len(list) THEN "none"
  ELSE IF b \in list[i].accepts THEN list[i].tag
  ELSE MatchFrom(list, i + 1, b)

Classify(list, b) == MatchFrom(list, 1, b)

\* cMux.Serve loop: a client connects, m.root.Accept() yields the
\* connection and a sniffing goroutine is started for it (wg.Add(1));
\* connections are numbered in the order they are accepted
CmuxAccept(c) ==
  /\ unit["cmux"] = "serving"
  /\ ~RootClosed
  /\ conn[c] = "new"
  /\ \A d \in Conns : d < c => conn[d] # "new"
  /\ conn' = [conn EXCEPT ![c] = "sniffing"]
  /\ UNCHANGED <<callVars, muc, protocol,
                 ctxVars, runVars, groupVars, unit, unitRet,
                 watcherPc, closedBy, muxVars, bytes, grpcQ, httpQ, grpcVars,
                 sdVars>>

\* an error handling that survives no error
HandleErrFatal(err) == FALSE

\* cMux.handleErr with the error handler cmux.New installs (it accepts every
\* error): the accept loop survives the temporary errors, and ErrNotMatched
\* is one
HandleErr(err) == err = ErrNotMatched

\* cMux.serve: the matchers block until the client's bytes arrive (cmux.New
\* sets no read timeout); a match is sent to the listener's channel, or the
\* connection is closed when donec is closed; an unmatched one is closed,
\* and the root listener too when handleErr does not survive ErrNotMatched
CmuxSniff(c) ==
  /\ conn[c] = "sniffing"
  /\ bytes[c] # "none"
  /\ LET tag == Classify(sls, bytes[c]) IN
       \/ /\ tag = "grpc"
          /\ grpcQ' = Append(grpcQ, c)
          /\ conn' = [conn EXCEPT ![c] = "queued"]
          /\ UNCHANGED <<httpQ, closedBy>>
       \/ /\ tag = "http"
          /\ httpQ' = Append(httpQ, c)
          /\ conn' = [conn EXCEPT ![c] = "queued"]
          /\ UNCHANGED <<grpcQ, closedBy>>
       \/ /\ tag # "none"
          /\ muxDone
          /\ conn' = [conn EXCEPT ![c] = "closed"]
          /\ UNCHANGED <<grpcQ, httpQ, closedBy>>
       \/ /\ tag = "none"
          /\ conn' = [conn EXCEPT ![c] = "unmatched"]
          /\ IF HandleErr(ErrNotMatched)
               THEN UNCHANGED closedBy
               ELSE CloseRoot(<<"cmux", 0>>)
          /\ UNCHANGED <<grpcQ, httpQ>>
  /\ UNCHANGED <<callVars, muc, protocol,
                 ctxVars, runVars, groupVars, unit, unitRet,
                 watcherPc, muxVars, bytes, grpcVars, sdVars>>

\* cMux.Serve: m.root.Accept() fails on the closed listener; the deferred
\* function closes the done channels and starts waiting for the sniffers
CmuxAcceptErr ==
  /\ unit["cmux"] = "serving"
  /\ RootClosed
  /\ muxDone' = TRUE
  /\ unit' = [unit EXCEPT !["cmux"] = "closing"]
  /\ UNCHANGED <<callVars, muc, protocol,
                 ctxVars, runVars, groupVars, unitRet, watcherPc,
                 closedBy, sls, muxClosed, connVars, grpcVars, sdVars>>

\* a Serve that reports the closed root listener as an orderly end
CmuxServeResultNil(err) == NoErr

\* line 93, cMux.Serve: the accept error of the root listener is returned
CmuxServeResult(err) == err

\* a drain that empties a queue and leaves its connections open
DrainedOpen(cs, q) == cs

\* connections of a queue are closed when cmux drains it
Drained(cs, q) ==
  [c \in Conns |-> IF \E i \in 1..Len(q) : q[i] = c THEN "closed" ELSE cs[c]]

\* cMux.Serve deferred function after wg.Wait(): every sniffing goroutine
\* has ended; the listeners' channels are closed and drained; Serve returns
\* the accept error
CmuxFinish ==
  /\ unit["cmux"] = "closing"
  /\ \A c \in Conns : conn[c] # "sniffing"
  /\ muxClosed' = TRUE
  /\ conn' = Drained(Drained(conn, grpcQ), httpQ)
  /\ grpcQ' = <<>>
  /\ httpQ' = <<>>
  /\ GroupReturn("cmux", CmuxServeResult(ErrClosed))
  /\ UNCHANGED <<callVars, muc, protocol,
                 ctxVars, runVars, watcherPc, closedBy, sls,
                 muxDone, bytes, grpcVars, sdVars>>

\* muxListener.Accept: the errors its select can yield
MuxAcceptErrs(q) ==
  (IF muxDone THEN {ErrMuxServerClosed} ELSE {}) \cup
  (IF muxClosed /\ q = <<>> THEN {ErrMuxListenerClosed} ELSE {})

\* ---------------------------------------------------------- gRPC unit
\* grpc.Server.Serve entry (GRPCService.Serve line 47): after a stop the
\* listener is closed and ErrServerStopped returned, otherwise the listener
\* is registered
GRPCServeStart ==
  /\ unit["grpc"] = "spawned"
  /\ IF grpcLis = "nil"
       THEN /\ CloseRoot(<<"grpc", 0>>)
            /\ GroupReturn("grpc", ErrServerStopped)
            /\ UNCHANGED grpcLis
       ELSE /\ grpcLis' = "registered"
            /\ unit' = [unit EXCEPT !["grpc"] = "serving"]
            /\ UNCHANGED <<closedBy, unitRet, groupVars>>
  /\ UNCHANGED <<callVars, muc, protocol,
                 ctxVars, runVars, watcherPc, muxVars, connVars,
                 grpcQuit, grpcDone, sdVars>>

\* grpc.Server.Serve loop: a connection is accepted from the virtual
\* listener; handleRawConn closes it when quit has fired
GRPCAccept ==
  /\ unit["grpc"] = "serving"
  /\ grpcQ # <<>>
  /\ conn' = [conn EXCEPT ![Head(grpcQ)] =
                IF grpcQuit THEN "closed" ELSE "grpc"]
  /\ grpcQ' = Tail(grpcQ)
  /\ UNCHANGED <<callVars, muc, protocol,
                 ctxVars, runVars, groupVars, unit, unitRet,
                 watcherPc, closedBy, muxVars, bytes, httpQ, grpcVars,
                 sdVars>>

\* a Serve that reports every end as an orderly one
GRPCServeResultNil(quit, err) == NoErr

\* grpc.Server.Serve: the value returned when Accept fails with err
GRPCServeResult(quit, err) == IF quit THEN NoErr ELSE err

\* grpc.Server.Serve: Accept fails; the result is fixed; the deferred
\* functions close the listener if it is still registered and release serveWG
GRPCAcceptErr ==
  /\ unit["grpc"] = "serving"
  /\ \E e \in MuxAcceptErrs(grpcQ) :
       unitRet' = [unitRet EXCEPT !["grpc"] = GRPCServeResult(grpcQuit, e)]
  /\ IF grpcLis = "registered"
       THEN CloseRoot(<<"grpc", 0>>) /\ grpcLis' = "empty"
       ELSE UNCHANGED <<closedBy, grpcLis>>
  /\ unit' = [unit EXCEPT !["grpc"] = "exiting"]
  /\ UNCHANGED <<callVars, muc, protocol,
                 ctxVars, runVars, groupVars, watcherPc, muxVars,
                 connVars, grpcQuit, grpcDone, sdVars>>

\* grpc.Server.Serve deferred function: when quit has fired Serve waits for
\* the stop to complete (<-s.done.Done()), then returns (part_001 line 72)
GRPCReturn ==
  /\ unit["grpc"] = "exiting"
  /\ grpcQuit => grpcDone
  /\ GroupReturn("grpc", unitRet["grpc"])
  /\ UNCHANGED <<callVars, muc, protocol,
                 ctxVars, runVars, watcherPc, closedBy, muxVars,
                 connVars, grpcVars, sdVars>>

\* ---------------------------------------------------------- HTTP unit
\* http.Server.Serve loop (HTTPService.ListenAndServe line 59): a connection
\* is accepted from the virtual listener and served
HTTPAccept ==
  /\ unit["http"] = "serving"
  /\ httpQ # <<>>
  /\ conn' = [conn EXCEPT ![Head(httpQ)] = "http"]
  /\ httpQ' = Tail(httpQ)
  /\ UNCHANGED <<callVars, muc, protocol,
                 ctxVars, runVars, groupVars, unit, unitRet,
                 watcherPc, closedBy, muxVars, bytes, grpcQ, grpcVars,
                 sdVars>>

\* a ListenAndServe that reports the closed listener as an orderly end
HTTPServeResultNil(err) == NoErr

\* HTTPService.ListenAndServe (http.go line 59): what s.Server.Serve(l)
\* returns is returned unchanged
HTTPServeResult(err) == err

\* http.Server.Serve: Accept fails; the deferred l.Close() runs and the
\* accept error is returned (http.Server.Shutdown is never called)
HTTPAcceptErr ==
  /\ unit["http"] = "serving"
  /\ \E e \in MuxAcceptErrs(httpQ) : GroupReturn("http", HTTPServeResult(e))
  /\ CloseRoot(<<"http", 0>>)
  /\ UNCHANGED <<callVars, muc, protocol,
                 ctxVars, runVars, watcherPc, muxVars, connVars,
                 grpcVars, sdVars>>

\* ------------------------------------------------------- Server.Shutdown
\* the values a read of s.cancel can yield: the stored one, or either value
\* while Run's write of the field is in progress
CancelReads == IF runPc = "called" THEN {"nil", "set"} ELSE {sCancel}

\* a goroutine calls s.Shutdown(ctx) (calls are numbered in call order);
\* lines 107-115: s.cancel is read and, if non-nil, called; the stopping
\* goroutine is started.  The read is unordered with the write of a Run
\* that has been called and has not yet stored the field.
SDCancel(i) ==
  /\ sdPc[i] = "idle"
  /\ \A j \in Calls : j < i => sdPc[j] # "idle"
  /\ \E v \in CancelReads : cancelCalled' = (cancelCalled \/ v = "set")
  /\ gsPc' = [gsPc EXCEPT ![i] = "begin"]
  /\ sdPc' = [sdPc EXCEPT ![i] = "select"]
  /\ UNCHANGED <<callVars, muc, protocol,
                 callerDone, sCancel, runVars, groupVars, unit,
                 unitRet, watcherPc, closedBy, muxVars, connVars, grpcVars,
                 sdRet, sdCtxDone, sdFirst>>

\* who closes the listener at line 113 of the i-th Shutdown call
Closer(i) == <<"shutdown", i>>

\* line 112, grpc.Server.GracefulStop entry: quit fires; after a completed
\* stop (conns == nil) GracefulStop returns at once and lines 113-114 run
\* (_ = s.Listener.Close(); close(done)); otherwise the registered listener
\* is closed, s.lis set to nil and the stop waits
GSBegin(i) ==
  /\ gsPc[i] = "begin"
  /\ grpcQuit' = TRUE
  /\ IF grpcDone
       THEN /\ gsPc' = [gsPc EXCEPT ![i] = "done"]
            /\ CloseRoot(Closer(i))
            /\ sdFirst' = [sdFirst EXCEPT ![i] =
                             IF @ = "none" /\ sdPc[i] = "select"
                               THEN "stop" ELSE @]
            /\ UNCHANGED grpcLis
       ELSE /\ gsPc' = [gsPc EXCEPT ![i] = "wait"]
            /\ IF grpcLis = "registered"
                 THEN CloseRoot(<<"grpc", 0>>)
                 ELSE UNCHANGED closedBy
            /\ grpcLis' = "nil"
            /\ UNCHANGED sdFirst
  /\ UNCHANGED <<callVars, muc, protocol,
                 ctxVars, runVars, groupVars, unit, unitRet,
                 watcherPc, muxVars, connVars, grpcDone, sdPc, sdRet,
                 sdCtxDone>>

\* grpc.Server.GracefulStop: serveWG.Wait() and the wait for the in-flight
\* connections are over, conns = nil and done fires; then lines 113-114:
\* _ = s.Listener.Close(); close(done)
GSFinish(i) ==
  /\ gsPc[i] = "wait"
  /\ unit["grpc"] # "serving"
  /\ \A c \in Conns : conn[c] # "grpc"
  /\ grpcDone' = TRUE
  /\ CloseRoot(Closer(i))
  /\ gsPc' = [gsPc EXCEPT ![i] = "done"]
  /\ sdFirst' = [sdFirst EXCEPT ![i] =
                   IF @ = "none" /\ sdPc[i] = "select" THEN "stop" ELSE @]
  /\ UNCHANGED <<callVars, muc, protocol,
                 ctxVars, runVars, groupVars, unit, unitRet,
                 watcherPc, muxVars, connVars, grpcQuit, grpcLis, sdPc, sdRet,
                 sdCtxDone>>

\* the context given to a Shutdown call is cancelled or passes its deadline
SDCtxExpire(i) ==
  /\ sdPc[i] = "select"
  /\ ~sdCtxDone[i]
  /\ sdCtxDone' = [sdCtxDone EXCEPT ![i] = TRUE]
  /\ sdFirst' = [sdFirst EXCEPT ![i] = IF @ = "none" THEN "ctx" ELSE @]
  /\ UNCHANGED <<callVars, muc, protocol,
                 ctxVars, runVars, groupVars, unit, unitRet,
                 watcherPc, closedBy, muxVars, connVars, grpcVars, sdPc,
                 sdRet, gsPc>>

\* a select that reports success whichever channel is ready
SelectResultsNil(doneClosed, ctxDone) ==
  IF doneClosed \/ ctxDone THEN {NoErr} ELSE {}

\* lines 116-123: the results the select can yield; when both channels are
\* ready Go picks either case
SelectResults(doneClosed, ctxDone) ==
  (IF doneClosed THEN {NoErr} ELSE {}) \cup (IF ctxDone THEN {ErrCtx} ELSE {})

\* lines 116-123: Shutdown returns by the case its select takes
SDSelect(i) ==
  /\ sdPc[i] = "select"
  /\ \E r \in SelectResults(gsPc[i] = "done", sdCtxDone[i]) :
       sdRet' = [sdRet EXCEPT ![i] = r]
  /\ sdPc' = [sdPc EXCEPT ![i] = "returned"]
  /\ sdFirst' = [sdFirst EXCEPT ![i] = "none"]
  /\ UNCHANGED <<callVars, muc, protocol,
                 ctxVars, runVars, groupVars, unit, unitRet,
                 watcherPc, closedBy, muxVars, connVars, grpcVars, sdCtxDone,
                 gsPc>>

\* ------------------------------------------------------- specifications
\* steps of the server's own goroutines
ServerStep ==
  \/ RunSpawn \/ RunWait \/ WatcherClose
  \/ \E c \in Conns : CmuxSniff(c)
  \/ CmuxAcceptErr \/ CmuxFinish
  \/ GRPCServeStart \/ GRPCAccept \/ GRPCAcceptErr \/ GRPCReturn
  \/ HTTPAccept \/ HTTPAcceptErr
  \/ \E i \in Calls : GSBegin(i) \/ GSFinish(i) \/ SDSelect(i)

\* steps of the callers and the clients, with at most m connections and
\* at most n Shutdown calls
EnvStep(m, n) ==
  \/ CallRun \/ CallerCancel
  \/ \E i \in 1..n : SDCancel(i) \/ SDCtxExpire(i)
  \/ \E c \in 1..m : CmuxAccept(c)
  \/ \E c \in Conns : ClientFinish(c)
  \/ \E c \in Conns, k \in Kinds : ClientSend(c, k)

Next == ServerStep \/ EnvStep(MaxConns, MaxShutdowns)

Spec == Init /\ [][Next]_vars

\* every goroutine of the server that can take a step eventually takes one;
\* callers and clients are under no obligation
FairSpec == Spec /\ WF_vars(ServerStep)

\* the lifecycle with one more Shutdown call
RepeatNext == ServerStep \/ EnvStep(MaxConns, MaxShutdowns + 1)

RepeatSpec == Init /\ [][RepeatNext]_vars

\* the lifecycle with one more connection
OrderNext == ServerStep \/ EnvStep(MaxConns + 1, MaxShutdowns)

OrderSpec == Init /\ [][OrderNext]_vars

\* the root listener (the exported field Server.Listener, line 21) stops
\* working while Run is serving, without any shutdown: its owner closes it,
\* so that Accept fails
ListenerFails ==
  /\ runPc = "wait"
  /\ <<"owner", 0>> \notin closedBy
  /\ CloseRoot(<<"owner", 0>>)
  /\ UNCHANGED <<callVars, muc, protocol,
                 ctxVars, runVars, groupVars, unit, unitRet,
                 watcherPc, muxVars, connVars, grpcVars, sdVars>>

\* the lifecycle with a listener that may fail
FaultNext == Next \/ ListenerFails

FaultSpec == Init /\ [][FaultNext]_vars

\* lines 50-81 on a Server whose Service field is nil (the field is exported;
\* New never leaves it nil): s.cancel is stored, the watcher goroutine is
\* started, http.New fails (http.go line 23) and Run returns at line 80
\* without cancelling the context and without waiting for anything. With
\* SERVICE_PROTOCOL other than "http" the gRPC unit started at line 68
\* dereferences the nil Service in its first statement, so the return is
\* followed here only for "http".
RunInitFails ==
  /\ runPc = "called"
  /\ protocol = "http"
  /\ sCancel' = "set"
  /\ watcherPc' = "waiting"
  /\ sls' = Registered(protocol)
  /\ runRet' = ErrHTTPInit
  /\ runPc' = "returned"
  /\ UNCHANGED <<callVars, muc, protocol,
                 callerDone, cancelCalled, reported, groupVars,
                 unit, unitRet, closedBy, muxDone, muxClosed, connVars,
                 grpcVars, sdVars>>

\* the lifecycle of a Server whose Service may be nil when Run is called
InitFailNext == Next \/ RunInitFails

InitFailSpec == Init /\ [][InitFailNext]_vars

\* a Run that opens a new listener when it is called again
ListenerReopened(cb) == {}

\* Server.Listener is made once, by New (line 39); Run takes the field as it
\* is (line 51), so a listener that was closed stays closed
ListenerKept(cb) == cb

\* a goroutine calls s.Run(ctx) on a Server whose Run has returned, with the
\* same context or with a fresh one. Lines 50-52 make a new cancel function
\* (the one still in s.cancel is stale until line 50 overwrites it), a new
\* multiplexer and a new errgroup; the gRPC server, the listener and the
\* connections are those of the Server. The watcher of the earlier Run, if
\* it has not run yet, closes the listener (its context is cancelled): its
\* Close is taken here at the latest.
RunAgain ==
  /\ runPc = "returned"
  /\ runPc' = "called"
  /\ runRet' = NoErr
  /\ reported' = FALSE
  /\ callerDone' \in {callerDone, FALSE}
  /\ sCancel' = "stale"
  /\ cancelCalled' = FALSE
  /\ gCancelled' = FALSE
  /\ gErr' = NoErr
  /\ firstFailed' = "none"
  /\ unit' = [u \in Units |-> "none"]
  /\ unitRet' = [u \in Units |-> NoErr]
  /\ closedBy' = ListenerKept(IF watcherPc = "waiting"
                                THEN closedBy \cup {<<"watcher", 0>>}
                                ELSE closedBy)
  /\ watcherPc' = "none"
  /\ sls' = <<>>
  /\ muxDone' = FALSE
  /\ muxClosed' = FALSE
  /\ UNCHANGED <<callVars, muc, protocol,
                 connVars, grpcVars, sdVars>>

\* the lifecycle of a Server whose Run may be called again, with one
\* Shutdown call
RerunNext == ServerStep \/ EnvStep(MaxConns, 1) \/ RunAgain

RerunSpec == Init /\ [][RerunNext]_vars

\* ------------------------------------------------- cmux bufferedReader
\* the variables of the server's lifecycle
serverVars ==
  <<protocol, ctxVars, runVars, groupVars, unit, unitRet, watcherPc,
    closedBy, muxVars, connVars, grpcVars, sdVars>>

Bytes == {0, 1}
Streams == UNION {[1..n -> Bytes] : n \in 0..MaxStream}

Min(a, b) == IF a < b THEN a ELSE b

\* the matchers of a rule: two for the gRPC listener (lines 65-66), one for
\* the HTTP listener (line 77)
MatcherCount(tag) == IF tag = "grpc" THEN 2 ELSE 1

RECURSIVE MatchersFrom(_, _)
MatchersFrom(list, i) ==
  IF i > Len(list) THEN 0
  ELSE MatcherCount(list[i].tag) + MatchersFrom(list, i + 1)

\* a reset that does not rewind the read position
ResetKeep(m, snif) ==
  [m EXCEPT !.sniffing = snif, !.bufferSize = Len(m.buffer)]

\* bufferedReader.reset: reading restarts at the head of the buffer
Reset(m, snif) ==
  [m EXCEPT !.sniffing = snif, !.bufferRead = 0,
            !.bufferSize = Len(m.buffer)]

\* bufferedReader.Read into a slice of n bytes: buffered bytes not yet read
\* again are returned first; otherwise the buffer is released when sniffing
\* is over and k bytes are read from the connection, and kept in the buffer
\* while sniffing. The result is the reader and the bytes returned.
Read(m, n, k) ==
  IF m.bufferSize > m.bufferRead
    THEN LET bn == Min(n, m.bufferSize - m.bufferRead) IN
           [m |-> [m EXCEPT !.bufferRead = m.bufferRead + bn],
            data |-> SubSeq(m.buffer, m.bufferRead + 1, m.bufferRead + bn)]
    ELSE LET data == SubSeq(m.stream, m.srcPos + 1, m.srcPos + k) IN
           [m |-> [m EXCEPT !.srcPos = m.srcPos + k,
                            !.buffer = IF m.sniffing THEN m.buffer \o data
                                       ELSE <<>>],
            data |-> data]

\* the numbers of bytes a read of the connection into n bytes can yield: at
\* least one (the read blocks until the client has sent something), at most
\* n and at most what is left of the stream
ReadSizes(m, n) ==
  IF m.bufferSize > m.bufferRead THEN {0}
  ELSE 1..Min(n, Len(m.stream) - m.srcPos)

\* cMux.serve: the next matcher is run on muc.startSniffing()
StartSniffing ==
  /\ muc.phase \in {"accepted", "sniffing"}
  /\ muc.left > 0
  /\ muc' = [Reset(muc, TRUE) EXCEPT !.phase = "sniffing",
                                     !.left = muc.left - 1, !.seen = <<>>]
  /\ UNCHANGED <<callVars, serverVars>>

\* the running matcher reads from the sniffing reader
MatcherRead(n) ==
  /\ muc.phase = "sniffing"
  /\ \E k \in ReadSizes(muc, n) :
       LET r == Read(muc, n, k) IN
         muc' = [r.m EXCEPT !.seen = muc.seen \o r.data]
  /\ UNCHANGED <<callVars, serverVars>>

\* cMux.serve: the matcher is satisfied, muc.doneSniffing() ends sniffing
\* and the connection is handed to the listener
DoneSniffing ==
  /\ muc.phase = "sniffing"
  /\ muc' = [Reset(muc, FALSE) EXCEPT !.phase = "serving",
                                      !.sniffed = Len(muc.buffer)]
  /\ UNCHANGED <<callVars, serverVars>>

\* the unit's server reads from the connection it accepted (MuxConn.Read)
HandlerRead(n) ==
  /\ muc.phase = "serving"
  /\ \E k \in ReadSizes(muc, n) :
       LET r == Read(muc, n, k) IN
         muc' = [r.m EXCEPT !.out = muc.out \o r.data]
  /\ UNCHANGED <<callVars, serverVars>>

\* a connection accepted by m.Serve() with the rules of the mode registered
ReplayInit ==
  /\ ServerInit
  /\ muc \in {NewMuxConn(s, MatchersFrom(Registered(protocol), 1)) :
                s \in Streams}
  /\ NoCalls

ReplayNext ==
  \/ StartSniffing
  \/ DoneSniffing
  \/ \E n \in 1..MaxRead : MatcherRead(n) \/ HandlerRead(n)

ReplaySpec == ReplayInit /\ [][ReplayNext]_vars

\* ------------------------------------------------------ rules of cmux
\* the lists of at most MaxRules rules that m.Match calls can register
RuleLists ==
  UNION {[1..n -> [tag : {"grpc", "http"}, accepts : SUBSET Kinds]] :
           n \in 0..MaxRules}

\* Run is serving, with any list of rules registered on the multiplexer
MatchInit ==
  /\ protocol = ""
  /\ callerDone = FALSE
  /\ sCancel = "set"
  /\ cancelCalled = FALSE
  /\ runPc = "wait"
  /\ runRet = NoErr
  /\ reported = FALSE
  /\ gCancelled = FALSE
  /\ gErr = NoErr
  /\ firstFailed = "none"
  /\ unit = [u \in Units |-> "serving"]
  /\ unitRet = [u \in Units |-> NoErr]
  /\ watcherPc = "waiting"
  /\ closedBy = {}
  /\ sls \in RuleLists
  /\ muxDone = FALSE
  /\ muxClosed = FALSE
  /\ conn = [c \in Conns |-> "new"]
  /\ bytes = [c \in Conns |-> "none"]
  /\ grpcQ = <<>>
  /\ httpQ = <<>>
  /\ grpcQuit = FALSE
  /\ grpcDone = FALSE
  /\ grpcLis = "registered"
  /\ sdPc = [i \in Calls |-> "idle"]
  /\ sdRet = [i \in Calls |-> NoErr]
  /\ sdCtxDone = [i \in Calls |-> FALSE]
  /\ gsPc = [i \in Calls |-> "none"]
  /\ sdFirst = [i \in Calls |-> "none"]
  /\ muc = NewMuxConn(<<>>, 0)
  /\ NoCalls

\* connections are accepted and classified
MatchNext ==
  \/ \E c \in 1..MaxConns : CmuxAccept(c)
  \/ \E c \in Conns, k \in Kinds : ClientSend(c, k)
  \/ \E c \in Conns : CmuxSniff(c)

MatchSpec == MatchInit /\ [][MatchNext]_vars

\* ================================================================ claims
\* shutdown of the server has been initiated by a caller
ShutdownInitiated == callerDone \/ \E i \in Calls : sdPc[i] # "idle"

\* the errors a unit returns for a closed listener
ClosureErrs ==
  {ErrClosed, ErrMuxServerClosed, ErrMuxListenerClosed, ErrServerStopped}

C2_Claim ==
  (firstFailed # "none") ~> (GroupCtxDone /\ RootClosed /\ runPc = "returned")

\* C3 (as claimed): Close is invoked on the root listener at most once, and
\* at least once when a Shutdown has completed its stop or Run has returned
\* and its watcher has run.
C3_Claim ==
  /\ CloseCount <= 1
  /\ (watcherPc = "done" \/ \E i \in Calls : gsPc[i] = "done")
       => CloseCount >= 1

\* C4 (as claimed): after the context given to Run is cancelled while Run
\* is running, every unit returns and Run returns, whatever the state of
\* the accepted connections.
C4_Claim ==
  (callerDone /\ runPc = "wait") ~>
    (runPc = "returned" /\ \A u \in Units : unit[u] \in {"none", "done"})

\* C5: when the context passed to Run is cancelled or expires while the
\* server is running, the value Run returns is a non-nil error, in each of
\* the three protocol modes.
C5_CancelledRunReturnsError ==
  \A p \in Protocols :
    (protocol = p /\ callerDone /\ runPc = "returned") => runRet # NoErr

\* C5 witness: Run has returned in gRPC-only mode after the caller's
\* context was cancelled, with no Shutdown call
C5_Witness ==
  /\ protocol = "grpc"
  /\ callerDone
  /\ runPc = "returned"
  /\ \A i \in Calls : sdPc[i] = "idle"

\* C6 (as claimed): when Run returns after shutdown was initiated, the
\* closure of the listeners is suppressed and Run returns nil.
C6_Claim ==
  (runPc = "returned" /\ ShutdownInitiated) => runRet = NoErr

\* C6 (amended): when Run returns after shutdown was initiated, the closure
\* is not suppressed: Run returns one of the closed-listener errors.
C6_ClosureIsReturned ==
  (runPc = "returned" /\ ShutdownInitiated) => runRet \in ClosureErrs

\* C6 witness: Run has returned after a Shutdown call alone ended its units
C6_Witness ==
  /\ runPc = "returned"
  /\ ~callerDone
  /\ sdPc[1] = "returned"
  /\ runRet \in ClosureErrs

\* C7 (as claimed): Shutdown returns nil if the stop and the listener close
\* completed before ctx was done, ctx.Err() if ctx was done first, and never
\* nil when the stop did not complete.
C7_Claim ==
  [][\A i \in Calls :
       (sdPc[i] = "select" /\ sdPc'[i] = "returned") =>
         /\ (sdRet'[i] = NoErr => gsPc[i] = "done")
         /\ (sdFirst[i] = "stop" => sdRet'[i] = NoErr)
         /\ (sdFirst[i] = "ctx" => sdRet'[i] = ErrCtx)]_vars

\* C7 (amended): Shutdown returns nil only if the graceful stop and the
\* listener close completed, and ctx.Err() only if ctx is done; it returns
\* nothing else, so it returns nil whenever ctx is never done.
C7_ShutdownResult ==
  \A i \in Calls :
    sdPc[i] = "returned" =>
      /\ sdRet[i] \in {NoErr, ErrCtx}
      /\ sdRet[i] = NoErr =>
           gsPc[i] = "done" /\ grpcDone /\ Closer(i) \in closedBy
      /\ sdRet[i] = ErrCtx => sdCtxDone[i]

\* C7 witness: a Shutdown call has returned its context's error although
\* its stop and its close of the listener had completed
C7_Witness ==
  \E i \in Calls :
    /\ sdPc[i] = "returned"
    /\ sdRet[i] = ErrCtx
    /\ gsPc[i] = "done"
    /\ Closer(i) \in closedBy

\* C8 (as claimed): a repeated Shutdown call returns nil unless its context
\* is done, and its Close of the listener is no double close.
C8_Claim ==
  \A i \in Calls :
    (i > 1 /\ sdPc[i] = "returned") =>
      /\ (~sdCtxDone[i] => sdRet[i] = NoErr)
      /\ (gsPc[i] = "done" => closedBy = {Closer(i)})

\* C9 (as claimed): no Shutdown call reads Server.cancel while a Run that
\* has been called has not yet stored it.
C9_Claim ==
  [][\A i \in Calls :
       (sdPc[i] = "idle" /\ sdPc'[i] # "idle") => runPc # "called"]_vars

\* C10 (as claimed): when Shutdown has returned its context's error while a
\* connection is in flight on the gRPC server, that connection is
\* terminated.
C10_Claim ==
  \A i \in Calls, c \in Conns :
    (sdPc[i] = "returned" /\ sdRet[i] = ErrCtx /\ conn[c] = "grpc")
      ~> (conn[c] # "grpc")

\* C11 (as claimed): a Shutdown call returns nil only after every server
\* Run started, the HTTP one as well as the gRPC one, has stopped accepting
\* and has no connection in flight.
C11_Claim ==
  \A i \in Calls :
    (sdPc[i] = "returned" /\ sdRet[i] = NoErr) =>
      /\ \A u \in {"grpc", "http"} : unit[u] \in {"none", "done"}
      /\ \A c \in Conns : conn[c] \notin {"grpc", "http"}

InQueue(q, c) == \E i \in 1..Len(q) : q[i] = c

\* C13: in HTTP-only mode a connection that opens with the gRPC preface is
\* closed as unmatched and never reaches the HTTP unit, in gRPC-only mode
\* the same holds for an HTTP/1 connection, and no connection is queued
\* for or served by a unit that Run did not start.
C13_NoDeliveryToAbsentUnit ==
  /\ \A c \in Conns :
       \/ /\ protocol = "http"
          /\ bytes[c] = "grpc"
       \/ /\ protocol = "grpc"
          /\ bytes[c] = "http1"
       => conn[c] \in {"sniffing", "unmatched"}
  /\ unit["grpc"] = "none" =>
       grpcQ = <<>> /\ \A c \in Conns : conn[c] # "grpc"
  /\ unit["http"] = "none" =>
       httpQ = <<>> /\ \A c \in Conns : conn[c] # "http"

\* C13 witness: in HTTP-only mode a connection that sent the gRPC preface
\* has been closed as unmatched
C13_Witness ==
  /\ protocol = "http"
  /\ \E c \in Conns : bytes[c] = "grpc" /\ conn[c] = "unmatched"

\* C16 (as claimed): connections classified to the same tag reach its unit
\* in the order the root listener accepted them (the order of their
\* numbers), even when the client of the earlier one sends later: a later
\* connection is never ahead of an earlier one in a listener's queue, nor
\* served while an earlier one still waits in that queue.
C16_Claim ==
  \A c \in Conns, d \in Conns :
    c < d =>
      /\ \A i \in 1..Len(grpcQ), j \in 1..Len(grpcQ) :
           (grpcQ[i] = d /\ grpcQ[j] = c) => j < i
      /\ \A i \in 1..Len(httpQ), j \in 1..Len(httpQ) :
           (httpQ[i] = d /\ httpQ[j] = c) => j < i
      /\ ~(conn[d] = "grpc" /\ InQueue(grpcQ, c))
      /\ ~(conn[d] = "http" /\ InQueue(httpQ, c))

\* the number of places connection c takes in the queues of the listeners
QueuedCount(c) ==
  Cardinality({i \in 1..Len(grpcQ) : grpcQ[i] = c}) +
  Cardinality({i \in 1..Len(httpQ) : httpQ[i] = c})

\* C14 (as claimed): when the classification of an accepted connection
\* finishes, the connection is delivered to exactly one virtual listener or
\* closed as unmatched, and a delivered connection is never closed by the
\* accept loop.
C14_Claim ==
  [][\A c \in Conns :
       /\ (conn[c] = "sniffing" /\ conn'[c] # "sniffing") =>
            \/ conn'[c] = "queued" /\ QueuedCount(c)' = 1
            \/ conn'[c] = "unmatched" /\ QueuedCount(c)' = 0
       /\ (conn[c] = "queued" /\ conn'[c] = "closed") =>
            unit'["cmux"] = unit["cmux"]]_vars

\* C14 (amended): a connection is never in two queues, nor twice in one,
\* nor both queued and closed; one closed as unmatched satisfied no rule; one
\* queued or served is with the listener of the first rule it satisfied;
\* and only after the accept loop or the gRPC server began to stop is a
\* connection that satisfied a rule closed instead (undelivered, or drained
\* from its queue).
C14_OneOutcome ==
  /\ \A i \in 1..Len(grpcQ) :
       /\ conn[grpcQ[i]] = "queued"
       /\ Classify(sls, bytes[grpcQ[i]]) = "grpc"
       /\ ~InQueue(httpQ, grpcQ[i])
       /\ \A j \in 1..Len(grpcQ) : grpcQ[i] = grpcQ[j] => i = j
  /\ \A i \in 1..Len(httpQ) :
       /\ conn[httpQ[i]] = "queued"
       /\ Classify(sls, bytes[httpQ[i]]) = "http"
       /\ \A j \in 1..Len(httpQ) : httpQ[i] = httpQ[j] => i = j
  /\ \A c \in Conns :
       /\ conn[c] = "queued" => (InQueue(grpcQ, c) \/ InQueue(httpQ, c))
       /\ conn[c] \notin {"new", "sniffing"} => bytes[c] # "none"
       /\ conn[c] = "unmatched" => Classify(sls, bytes[c]) = "none"
       /\ conn[c] \in {"grpc", "http"} => Classify(sls, bytes[c]) = conn[c]
       /\ conn[c] = "closed" =>
            Classify(sls, bytes[c]) # "none" /\ (muxDone \/ grpcQuit)

\* C14 witness: a connection that satisfied a rule was closed by the accept
\* loop while no graceful stop of the gRPC server had begun
C14_Witness ==
  \E c \in Conns : conn[c] = "closed" /\ muxDone /\ ~grpcQuit

\* C19: a connection that matches no rule is a local, non-fatal event: as
\* long as nobody initiated shutdown, with a connection closed as unmatched
\* the root listener is open, the accept loop and every unit Run started
\* keep serving, the shared context is not cancelled and Run has not
\* returned.
C19_UnmatchedIsNotFatal ==
  ((\E c \in Conns : conn[c] = "unmatched") /\ ~ShutdownInitiated) =>
    /\ ~RootClosed
    /\ ~GroupCtxDone
    /\ firstFailed = "none"
    /\ runPc = "wait"
    /\ unit["cmux"] = "serving"
    /\ \A u \in Units : unit[u] \in {"none", "spawned", "serving"}

\* C19 witness: a connection was closed as unmatched and the server serves
C19_Witness ==
  /\ \E c \in Conns : conn[c] = "unmatched"
  /\ ~ShutdownInitiated
  /\ unit["cmux"] = "serving"
  /\ unit["http"] = "serving"

\* C20 (as claimed): when Run returns an error of a unit that ended while
\* nobody had initiated shutdown, Run has reported the failure at error
\* level ("server run terminated"); when the listener was closed by a
\* shutdown only, the error is not reported.
C20_Claim ==
  runPc = "returned" =>
    /\ (runRet # NoErr /\ ~ShutdownInitiated) => reported
    /\ (<<"owner", 0>> \notin closedBy) => ~reported

\* C18 (as claimed): the classification of an accepted connection is
\* bounded by a read timeout: also a connection whose client sends no bytes
\* leaves classification (it is closed as unmatched once the timeout has
\* elapsed).
C18_Claim ==
  \A c \in Conns : (conn[c] = "sniffing") ~> (conn[c] # "sniffing")

\* C17: the bytes a matcher consumed while the connection was classified
\* are given to the unit's server exactly once and in order, ahead of the
\* rest of the stream: what the server has read, then the buffered bytes not
\* yet read again, then the bytes not yet read from the connection, is the
\* client's stream; every matcher too reads the stream from its first byte.
C17_ByteFidelity ==
  /\ muc.seen = SubSeq(muc.stream, 1, Len(muc.seen))
  /\ muc.out = SubSeq(muc.stream, 1, Len(muc.out))
  /\ muc.phase = "serving" =>
       muc.out \o SubSeq(muc.buffer, muc.bufferRead + 1, muc.bufferSize)
               \o SubSeq(muc.stream, muc.srcPos + 1, Len(muc.stream))
         = muc.stream

\* C17 witness: two matchers were run, part of the stream was consumed
\* during classification, and the server has read the whole stream
C17_Witness ==
  /\ muc.phase = "serving"
  /\ muc.left <= 1
  /\ muc.sniffed >= 1
  /\ muc.sniffed < Len(muc.stream)
  /\ muc.out = muc.stream

\* the positions of the rules of the multiplexer that accept the bytes b
Hits(b) == {i \in 1..Len(sls) : b \in sls[i].accepts}

\* C15: the rules are evaluated in registration order and the first one
\* satisfied wins: a classified connection is in the queue of the listener
\* of the earliest rule that accepts its bytes, and in no other queue, or is
\* closed as unmatched when no rule accepts them; Run registers the gRPC
\* rule before the HTTP rule, so bytes that satisfy both go to gRPC.
C15_FirstRuleWins ==
  /\ Len(Registered("")) = 2
  /\ Registered("")[1].tag = "grpc"
  /\ Registered("")[2].tag = "http"
  /\ \A c \in Conns :
       conn[c] \notin {"new", "sniffing"} =>
         IF Hits(bytes[c]) = {}
           THEN conn[c] = "unmatched"
           ELSE LET first == CHOOSE i \in Hits(bytes[c]) :
                               \A j \in Hits(bytes[c]) : i <= j
                IN  /\ conn[c] = "queued"
                    /\ InQueue(grpcQ, c) <=> sls[first].tag = "grpc"
                    /\ InQueue(httpQ, c) <=> sls[first].tag = "http"

\* C15 witness: with the gRPC rule registered before the HTTP rule, a
\* connection whose bytes satisfy both rules is queued for the gRPC unit
C15_Witness ==
  /\ Len(sls) = 2
  /\ sls[1].tag = "grpc"
  /\ sls[2].tag = "http"
  /\ \E c \in Conns :
       /\ conn[c] = "queued"
       /\ bytes[c] \in sls[1].accepts \cap sls[2].accepts
       /\ InQueue(grpcQ, c)

\* C21 (as claimed): with both rules registered, a connection whose bytes
\* the gRPC matcher accepts goes to the gRPC listener, and every other
\* connection, whatever its leading bytes, goes to the HTTP listener: none
\* is closed as unmatched.
C21_Claim ==
  protocol = "" =>
    \A c \in Conns :
      /\ conn[c] # "unmatched"
      /\ InQueue(grpcQ, c) \/ conn[c] = "grpc" => GRPCMatcher(bytes[c])
      /\ InQueue(httpQ, c) \/ conn[c] = "http" => ~GRPCMatcher(bytes[c])

C23_HTTPServesUntilClosed ==
  unit["http"] = "done" =>
    /\ unitRet["http"] # NoErr
    /\ muxDone
    /\ closedBy \ {<<"http", 0>>} # {}

\* C23 witness: ListenAndServe has returned the error of a listener that a
\* Shutdown call alone had closed, no context having been cancelled before
C23_Witness ==
  /\ unit["http"] = "done"
  /\ unitRet["http"] # NoErr
  /\ ~callerDone
  /\ ~cancelCalled
  /\ firstFailed = "http"
  /\ <<"watcher", 0>> \notin closedBy

\* C23, liveness: an HTTP server that is serving when its listener is
\* closed eventually returns
C23_Returns ==
  (unit["http"] = "serving" /\ RootClosed) ~> (unit["http"] = "done")

\* C24 (as claimed): once shutdown has begun (the context is cancelled or
\* Shutdown has been called) no connection is newly accepted and none is newly
\* handed to a server, in this Run or in a later one.
C24_Claim ==
  [][ShutdownInitiated =>
       \A c \in Conns :
         /\ conn[c] = "new" => conn'[c] = "new"
         /\ conn'[c] \in {"grpc", "http"} => conn'[c] = conn[c]]_vars

\* C24 (amended): shutdown takes effect when the root listener is closed.
\* From then on the listener stays closed and no connection is accepted from
\* it, in this Run or in a later Run on the same Server; a connection is
\* handed to a server only by a unit that is serving, and only a connection
\* the multiplexer accepted and queued before; a unit that has returned does
\* not serve again unless Run is called again.
C24_ClosedListenerAcceptsNothing ==
  [][/\ closedBy # {} => closedBy' # {}
     /\ \A c \in Conns :
          /\ closedBy # {} /\ conn[c] = "new" => conn'[c] = "new"
          /\ conn'[c] = "grpc" /\ conn[c] # "grpc" =>
               unit["grpc"] = "serving" /\ InQueue(grpcQ, c)
          /\ conn'[c] = "http" /\ conn[c] # "http" =>
               unit["http"] = "serving" /\ InQueue(httpQ, c)
     /\ \A u \in Units :
          unit[u] = "done" /\ unit'[u] # "done" => runPc' = "called"]_vars

\* C24: a later Run is serving (its watcher waits, the earlier Run's watcher
\* has closed the listener) while a client has a connection to offer
C24_Witness ==
  /\ <<"watcher", 0>> \in closedBy
  /\ watcherPc = "waiting"
  /\ unit["cmux"] = "serving"
  /\ \E c \in Conns : conn[c] = "new"

\* C28 (as claimed): whenever Run has returned, by whatever path, no unit it
\* spawned is still running, the shared context is cancelled, the watcher
\* has run and the root listener is closed.
C28_Claim ==
  runPc = "returned" =>
    /\ \A u \in Units : unit[u] \in {"none", "done"}
    /\ GroupCtxDone
    /\ watcherPc = "done"
    /\ RootClosed

\* ------------------------------------- firebase.FirebaseAuthMiddleware
\* A string is the sequence of its pieces: words and single spaces. Words
\* are chosen so that no two of them put together spell another one.
Words == {"Bearer", "bearer", "BEARER", "Token", "tok1", "tok2"}
Space == " "
Strings == UNION {[1..n -> Words \cup {Space}] : n \in 0..MaxHeader}

\* a comparison of schemes that minds the case
KeepCase(w) == w

\* strings.ToLower of a piece
LowerWord(w) ==
  CASE w \in {"Bearer", "BEARER"} -> "bearer"
    [] w = "Token" -> "token"
    [] OTHER -> w

\* strings.ToLower
ToLower(str) == [i \in 1..Len(str) |-> LowerWord(str[i])]

\* strings.Index(str, sep): position of the first sep, 0 if there is none
Index(str, sep) ==
  IF \E i \in 1..Len(str) : str[i] = sep
  THEN CHOOSE i \in 1..Len(str) :
         str[i] = sep /\ \A j \in 1..(i - 1) : str[j] # sep
  ELSE 0

\* strings.SplitN(str, sep, 2)
SplitN(str, sep) ==
  LET i == Index(str, sep) IN
    IF i = 0 THEN <<str>>
    ELSE <<SubSeq(str, 1, i - 1), SubSeq(str, i + 1, Len(str))>>

\* no firebase user in the gin context
NoUser == <<>>

\* the *auth.Token the verifier returns for a token string it accepts
TokenOf(tokenStr) == <<"token", tokenStr>>

\* a request with the given Authorization header (empty: no header), before
\* the middleware runs; verifies tells whether Auth.VerifyIDToken accepts
\* the token string it is given
NewRequest(header, verifies) ==
  [header |-> header, verifies |-> verifies, phase |-> "received",
   status |-> 0, nextRan |-> FALSE, user |-> NoUser, verifyCalls |-> 0,
   verified |-> <<>>]

\* c.AbortWithStatusJSON(http.StatusUnauthorized, ...)
Abort401(r) == [r EXCEPT !.phase = "answered", !.status = 401]

\* firebase.go lines 94-119, the handler the middleware returns
FirebaseAuthHandler(r) ==
  IF r.header = <<>> THEN Abort401(r)
  ELSE LET parts == SplitN(r.header, Space) IN
    IF Len(parts) # 2 \/ ToLower(parts[1]) # <<"bearer">> THEN Abort401(r)
    ELSE LET called == [r EXCEPT !.verifyCalls = r.verifyCalls + 1,
                                 !.verified = parts[2]] IN
      IF ~r.verifies THEN Abort401(called)
      ELSE [called EXCEPT !.phase = "answered", !.nextRan = TRUE,
                          !.user = TokenOf(parts[2])]

\* gin runs the middleware on the request
FirebaseAuthMiddleware ==
  /\ fbReq.phase = "received"
  /\ fbReq' = FirebaseAuthHandler(fbReq)
  /\ UNCHANGED <<muc, serverVars, svcNew, httpNew, authReq>>

FirebaseInit ==
  /\ ServerInit
  /\ muc = NewMuxConn(<<>>, 0)
  /\ svcNew = <<>>
  /\ httpNew = <<>>
  /\ authReq = <<>>
  /\ \E h \in Strings, v \in BOOLEAN : fbReq = NewRequest(h, v)

FirebaseNext == FirebaseAuthMiddleware

FirebaseSpec == FirebaseInit /\ [][FirebaseNext]_vars

\* the header has the form "<scheme> <token>" (the scheme is what precedes
\* the first space) and its scheme is "bearer" in some mix of cases
BearerForm(h) ==
  /\ Len(h) >= 2
  /\ h[1] \in {"Bearer", "bearer", "BEARER"}
  /\ h[2] = Space

\* C25: the request reaches the next handler exactly when its header has the
\* bearer form and the verifier accepts the token; then the verified token
\* (of everything after the first space) is the firebase user; otherwise the
\* answer is 401, the next handler does not run and no user is stored; the
\* verifier is called once for a header of the bearer form and never for a
\* missing or malformed one.
C25_BearerOnly ==
  fbReq.phase = "answered" =>
    /\ fbReq.nextRan <=> (BearerForm(fbReq.header) /\ fbReq.verifies)
    /\ fbReq.nextRan =>
         /\ fbReq.user = TokenOf(SubSeq(fbReq.header, 3, Len(fbReq.header)))
         /\ fbReq.status # 401
    /\ ~fbReq.nextRan => fbReq.status = 401 /\ fbReq.user = NoUser
    /\ fbReq.verifyCalls = (IF BearerForm(fbReq.header) THEN 1 ELSE 0)

\* C25: a header in capitals whose token itself holds a space was verified
\* and let through
C25_Witness ==
  /\ fbReq.phase = "answered"
  /\ Len(fbReq.header) > 2
  /\ fbReq.header[1] = "BEARER"
  /\ fbReq.nextRan
  /\ fbReq.user # NoUser

\* ------------------------------------------------ firebase_service.Auth
Perms == {"read", "write"}
\* an element of the permissions claim that is not a JSON string
NonString == "#7"
Required == UNION {[1..n -> Perms] : n \in 0..MaxPerms}
Granted == UNION {[1..n -> Perms \cup {NonString}] : n \in 0..MaxPerms}

\* lines 221-232: the inner loop over the token's permissions
HasRequired(required, permissions) ==
  \E j \in 1..Len(permissions) : permissions[j] = required

\* lines 219-235: the outer loop; line 234 assigns hasAllRequired the
\* outcome for the permission just looked at
RECURSIVE HasAllRequired(_, _, _)
HasAllRequired(requiredPermissions, permissions, hasAllRequired) ==
  IF requiredPermissions = <<>> THEN hasAllRequired
  ELSE HasAllRequired(Tail(requiredPermissions), permissions,
                      HasRequired(Head(requiredPermissions), permissions))

\* lines 223-227: the type assertion permission.(string) fails for some
\* element, which the inner loop meets on its first pass
NotAllStrings(requiredPermissions, permissions) ==
  /\ requiredPermissions # <<>>
  /\ \E j \in 1..Len(permissions) : permissions[j] = NonString

\* a request whose token passed the checks of lines 148-217 and carries the
\* given permissions claim, at a route made with Auth(requiredPermissions)
NewAuthRequest(requiredPermissions, permissions) ==
  [required |-> requiredPermissions, permissions |-> permissions,
   phase |-> "received", status |-> 0, error |-> "", nextRan |-> FALSE]

\* lines 219-242
PermissionCheck(r) ==
  IF NotAllStrings(r.required, r.permissions)
  THEN [r EXCEPT !.phase = "answered", !.status = 401,
                 !.error = "error getting permissions"]
  ELSE IF ~HasAllRequired(r.required, r.permissions, TRUE)
  THEN [r EXCEPT !.phase = "answered", !.status = 401,
                 !.error = "missing required permissions"]
  ELSE [r EXCEPT !.phase = "answered", !.nextRan = TRUE]

\* gin runs the handler Auth returned on the request
Auth ==
  /\ authReq.phase = "received"
  /\ authReq' = PermissionCheck(authReq)
  /\ UNCHANGED <<muc, serverVars, fbReq, svcNew, httpNew>>

AuthInit ==
  /\ ServerInit
  /\ muc = NewMuxConn(<<>>, 0)
  /\ fbReq = <<>>
  /\ svcNew = <<>>
  /\ httpNew = <<>>
  /\ \E q \in Required, g \in Granted : authReq = NewAuthRequest(q, g)

AuthNext == Auth

AuthSpec == AuthInit /\ [][AuthNext]_vars

\* the permissions claim holds every permission of the list
HoldsAll(required, permissions) ==
  \A i \in 1..Len(required) :
    \E j \in 1..Len(permissions) : permissions[j] = required[i]

\* C29 (as claimed): a request reaches the next handler only if its token's
\* permissions hold every required permission; a token that lacks one,
\* wherever in the list, is answered 401 "missing required permissions".
C29_Claim ==
  authReq.phase = "answered" =>
    /\ authReq.nextRan => HoldsAll(authReq.required, authReq.permissions)
    /\ ~HoldsAll(authReq.required, authReq.permissions) =>
         /\ ~authReq.nextRan
         /\ authReq.status = 401
         /\ \/ authReq.error = "missing required permissions"
            \/ \E j \in 1..Len(authReq.permissions) :
                 authReq.permissions[j] = NonString

\* ------------------------------------------------------- service.New
\* entries of SERVICE_DEPS, as pieces: names, addresses, "@" and spaces
DepEntries ==
  { <<>>, <<Space>>, <<"auth">>, <<"@", "h1">>, <<"auth", "@">>,
    <<"auth", "@", Space>>, <<"auth", "@", "h1">>, <<"users", "@", "h2">>,
    <<Space, "auth", Space, "@", Space, "h1", Space>>,
    <<"auth", "@", "h1", "@", "h2">> }
DepLists == UNION {[1..n -> DepEntries] : n \in 0..MaxDeps}

\* strings.Join(entries, ","): the value of SERVICE_DEPS
RECURSIVE Join(_)
Join(entries) ==
  IF entries = <<>> THEN <<>>
  ELSE IF Len(entries) = 1 THEN entries[1]
  ELSE entries[1] \o <<",">> \o Join(Tail(entries))

\* strings.Split(str, sep)
RECURSIVE Split(_, _)
Split(str, sep) ==
  LET i == Index(str, sep) IN
    IF i = 0 THEN <<str>>
    ELSE <<SubSeq(str, 1, i - 1)>> \o Split(SubSeq(str, i + 1, Len(str)), sep)

\* strings.TrimSpace
RECURSIVE TrimSpace(_)
TrimSpace(str) ==
  IF str = <<>> THEN str
  ELSE IF Head(str) = Space THEN TrimSpace(Tail(str))
  ELSE IF str[Len(str)] = Space THEN TrimSpace(SubSeq(str, 1, Len(str) - 1))
  ELSE str

ErrDB == "failed to create db connection"
ErrDial == "failed to dial"
ErrDialNil == "failed to dial: got nil connection"

\* a New that goes on without the dependency whose dial failed
DialFailedPartial(services, how) ==
  [svc |-> "service", err |-> NoErr, conns |-> services]

\* lines 275-280: a dial failed (how: "err") or gave no connection ("nil")
DialFailed(services, how) ==
  [svc |-> "nil", err |-> IF how = "err" THEN ErrDial ELSE ErrDialNil,
   conns |-> {}]

\* lines 260-301: the loop over the entries; calls counts the dials made,
\* services is the map built so far, as pairs <<name, connection>>, a
\* connection being named by the number of the dial that made it
RECURSIVE ConnectDeps(_, _, _, _, _)
ConnectDeps(deps, calls, services, failAt, how) ==
  IF deps = <<>>
  THEN [svc |-> "service", err |-> NoErr, conns |-> services]
  ELSE
    LET dep == TrimSpace(Head(deps))
        parts == SplitN(dep, "@")
        name == TrimSpace(parts[1])
        addr == TrimSpace(parts[2])
        skip == ConnectDeps(Tail(deps), calls, services, failAt, how)
    IN
      IF dep = <<>> THEN skip
      ELSE IF Len(parts) # 2 THEN skip
      ELSE IF name = <<>> \/ addr = <<>> THEN skip
      ELSE IF failAt = calls + 1 THEN DialFailed(services, how)
      ELSE ConnectDeps(Tail(deps), calls + 1,
                       {p \in services : p[1] # name}
                         \cup {<<name, calls + 1>>},
                       failAt, how)

\* lines 218-305 of service_test.go (the file holds service.go after the
\* tests)
ServiceNew(dbOk, raw, failAt, how) ==
  IF ~dbOk THEN [svc |-> "nil", err |-> ErrDB, conns |-> {}]
  ELSE IF raw = <<>>
  THEN [svc |-> "service", err |-> NoErr, conns |-> {}]
  ELSE ConnectDeps(Split(raw, ","), 0, {}, failAt, how)

\* a process calls service.New()
CallServiceNew ==
  /\ svcNew.phase = "called"
  /\ svcNew' = [svcNew EXCEPT
                  !.phase = "returned",
                  !.result = ServiceNew(svcNew.dbOk, svcNew.raw,
                                        svcNew.failAt, svcNew.how)]
  /\ UNCHANGED <<muc, serverVars, fbReq, httpNew, authReq>>

\* the environment of a call: SERVICE_DEPS made of the given entries,
\* whether the database connects, and which dial (0: none) fails and how
ServiceInit ==
  /\ ServerInit
  /\ muc = NewMuxConn(<<>>, 0)
  /\ fbReq = <<>>
  /\ httpNew = <<>>
  /\ authReq = <<>>
  /\ \E es \in DepLists, ok \in BOOLEAN, f \in 0..MaxDeps,
        h \in {"err", "nil"} :
       svcNew = [entries |-> es, raw |-> Join(es), dbOk |-> ok,
                 failAt |-> f, how |-> h, phase |-> "called",
                 result |-> <<>>]

ServiceNext == CallServiceNew

ServiceSpec == ServiceInit /\ [][ServiceNext]_vars

\* an entry "name@addr": something other than spaces before its first "@"
\* and after it
WellFormed(e) ==
  \E i \in 1..Len(e) :
    /\ e[i] = "@"
    /\ \A j \in 1..(i - 1) : e[j] # "@"
    /\ \E j \in 1..(i - 1) : e[j] # Space
    /\ \E j \in (i + 1)..Len(e) : e[j] # Space

\* the name of a well-formed entry: what is not a space before the "@"
NameOf(e) == SelectSeq(SubSeq(e, 1, Index(e, "@") - 1), LAMBDA x : x # Space)

\* the well-formed entries of a list
WellFormedIn(es) == {i \in 1..Len(es) : WellFormed(es[i])}

\* C26: New returns either a service and no error, with a connection under
\* the name of every well-formed entry of SERVICE_DEPS and under no other
\* name, or no service and the error of the first failure: the database's,
\* or that of a dial for a well-formed entry. A failure never yields a
\* service, so no service has fewer connections than well-formed names.
C26_AllOrNothing ==
  svcNew.phase = "returned" =>
    LET r == svcNew.result
        wf == WellFormedIn(svcNew.entries)
        dialFails == svcNew.failAt \in 1..Cardinality(wf)
    IN
      /\ r.svc = "service" <=> r.err = NoErr
      /\ r.svc = "service" <=> (svcNew.dbOk /\ ~dialFails)
      /\ r.svc = "service" =>
           /\ \A i \in wf : \E p \in r.conns :
                p[1] = NameOf(svcNew.entries[i]) /\ p[2] > 0
           /\ \A p \in r.conns : \E i \in wf :
                p[1] = NameOf(svcNew.entries[i])
      /\ r.svc = "nil" =>
           /\ r.conns = {}
           /\ r.err = (IF ~svcNew.dbOk THEN ErrDB
                       ELSE IF svcNew.how = "err" THEN ErrDial
                       ELSE ErrDialNil)

\* C26: two well-formed entries, the first dial succeeded and the second
\* failed, and New returned no service
C26_Witness ==
  /\ svcNew.phase = "returned"
  /\ Cardinality(WellFormedIn(svcNew.entries)) = 2
  /\ svcNew.dbOk
  /\ svcNew.failAt = 2
  /\ svcNew.result.svc = "nil"
  /\ svcNew.result.err # NoErr

\* ----------------------------------------------------------- http.New
Methods == {"GET", "PUT", "POST", "DELETE", "PATCH", ""}
Paths == {"/ping", "/users"}
Versions == {"v1", "v2"}
\* route.Handler: Method, Path and the chain of gin handlers, named here by
\* a number
HandlerLists ==
  UNION {[1..n -> [Method : Methods, Path : Paths]] : n \in 0..MaxRoutes}
\* a *service.Service: nil, or one with its HTTPHandlers
NilService == [nil |-> TRUE, HTTPHandlers |-> <<>>]
Services == {[nil |-> FALSE, HTTPHandlers |-> hs] : hs \in HandlerLists}

\* a New that registers a handler whatever its method
RecognisedAny(method) == TRUE

\* lines 32-44: the methods the switch has a case for
Recognised(method) == method \in {"GET", "PUT", "POST", "DELETE"}

\* lines 31 and 34: engine.Group("/api/" + version) and group.GET(path, ...):
\* the path a route is registered at
FullPath(version, path) == <<"/api/", version, path>>

\* the route table lines 32-45 build from the first n handlers: one route
\* per handler with a recognised method
RoutesOf(handlers, version, n) ==
  {[method |-> handlers[i].Method,
    path |-> FullPath(version, handlers[i].Path), handler |-> i] :
     i \in {j \in 1..n : Recognised(handlers[j].Method)}}

\* gin's router holds one handler chain per method and path: registering a
\* second one panics ("handlers are already registered for path")
Conflict(handlers, version) ==
  \E r1, r2 \in RoutesOf(handlers, version, Len(handlers)) :
    r1.handler # r2.handler /\ r1.method = r2.method /\ r1.path = r2.path

\* line 43: the warnings logged, one per handler with another method
Warned(handlers) == {i \in 1..Len(handlers) : ~Recognised(handlers[i].Method)}

\* http.go lines 22-54
HTTPNew(svc, version) ==
  IF svc = NilService
  THEN [svc |-> "nil", err |-> "service cannot be nil", routes |-> {},
        warned |-> {}]
  ELSE IF Conflict(svc.HTTPHandlers, version)
  THEN [svc |-> "panic", err |-> NoErr, routes |-> {}, warned |-> {}]
  ELSE [svc |-> "service", err |-> NoErr,
        routes |-> RoutesOf(svc.HTTPHandlers, version,
                            Len(svc.HTTPHandlers)),
        warned |-> Warned(svc.HTTPHandlers)]

\* a process calls http.New(svc, version)
CallHTTPNew ==
  /\ httpNew.phase = "called"
  /\ httpNew' = [httpNew EXCEPT
                   !.phase = "returned",
                   !.result = HTTPNew(httpNew.svc, httpNew.version)]
  /\ UNCHANGED <<muc, serverVars, fbReq, svcNew, authReq>>

\* the arguments of a call: a nil service, or one with a list of handlers
HTTPInit ==
  /\ ServerInit
  /\ muc = NewMuxConn(<<>>, 0)
  /\ fbReq = <<>>
  /\ svcNew = <<>>
  /\ authReq = <<>>
  /\ \E s \in Services \cup {NilService}, v \in Versions :
       httpNew = [svc |-> s, version |-> v, phase |-> "called",
                  result |-> <<>>]

HTTPNext == CallHTTPNew

HTTPSpec == HTTPInit /\ [][HTTPNext]_vars

\* engine.ServeHTTP: the handlers that answer a request
Answering(routes, method, path) ==
  {r.handler : r \in {x \in routes : x.method = method /\ x.path = path}}

====
